---- MODULE Spec2Model ----
(***************************************************************************)
(* A model of dfa_place_finder/dfa.py: the class DFA, a character trie     *)
(* with a trap node, its three methods insert, accepts and to_dot.         *)
(*                                                                         *)
(* A Python str is modelled as a sequence of one-character strings.  A     *)
(* _Node object is an address of the heap `nodes`; its `children` dict is  *)
(* a sequence of <<key, value>> pairs in insertion order (a Python dict    *)
(* iterates in insertion order), its `is_final` a BOOLEAN.                 *)
(***************************************************************************)
EXTENDS Integers, Sequences, FiniteSets, TLC

VARIABLES nodes, root, trap_node, ret, inserted, twin

vars == <<nodes, root, trap_node, ret, inserted, twin>>

(***************************************************************************)
(* Bounds of the model.                                                    *)
(***************************************************************************)
\* the number of _Node objects alive at once, root and trap node included
MaxNodes == 5
\* the length of a text given to accepts
MaxText == 3

\* the symbols the words and texts are drawn from: two letters and a
\* punctuation symbol (one that to_dot escapes)
Alphabet == {"a", "b", "\""}

\* the addresses an object can be placed at
Addr == 0 .. (2 * MaxNodes - 1)

RECURSIVE StrUpTo(_)
StrUpTo(n) ==
    IF n = 0 THEN {<<>>}
    ELSE LET shorter == StrUpTo(n - 1)
         IN  shorter \cup {Append(s, ch) : s \in {t \in shorter : Len(t) = n - 1}, ch \in Alphabet}

\* the symbols of the words whose export is looked at for its labels: a
\* letter, the two symbols to_dot escapes and another punctuation symbol
Symbols == {"a", ",", "\"", "\\"}

RECURSIVE SymUpTo(_)
SymUpTo(n) ==
    IF n = 0 THEN {<<>>}
    ELSE LET shorter == SymUpTo(n - 1)
         IN  shorter \cup {Append(s, ch) : s \in {t \in shorter : Len(t) = n - 1}, ch \in Symbols}

\* the words over Symbols insert is called with
LabelWords == SymUpTo(MaxNodes - 3)

\* the words insert is called with: a longer word does not fit in MaxNodes
Words == StrUpTo(MaxNodes - 2)
\* the texts accepts is called with
Texts == StrUpTo(MaxText)

(***************************************************************************)
(* string.punctuation, but for the grave accent, which no TLA+ string can  *)
(* hold; no word or text of the model contains it.                         *)
(***************************************************************************)
punctuation ==
    {"!", "\"", "#", "$", "%", "&", "'", "(", ")", "*", "+", ",", "-", ".",
     "/", ":", ";", "<", "=", ">", "?", "@", "[", "\\", "]", "^", "_",
     "{", "|", "}", "~"}

(***************************************************************************)
(* dict operations on a sequence of <<key, value>> pairs                   *)
(***************************************************************************)
\* `k in d`
Contains(d, k) == \E i \in 1 .. Len(d) : d[i][1] = k

\* The outcome of a call or an expression: the value it yields, or the
\* exception it raises.
Value(v) == [exc |-> "None", val |-> v]
Raise(e) == [exc |-> e]

\* `d[k]`: the value stored under k; raises KeyError when there is none
GetItem(d, k) ==
    IF Contains(d, k)
    THEN Value(d[CHOOSE i \in 1 .. Len(d) : d[i][1] = k][2])
    ELSE Raise("KeyError")

\* `d[k] = v`
SetItem(d, k, v) ==
    IF Contains(d, k)
    THEN [i \in 1 .. Len(d) |-> IF d[i][1] = k THEN <<k, v>> ELSE d[i]]
    ELSE Append(d, <<k, v>>)

\* Variant of SetDefault: `d[k] = v`, which replaces the child already there.
SetDefault_overwrite(d, k, v) == SetItem(d, k, v)

\* `d.setdefault(k, v)`: the dict afterwards (the call returns its d[k])
SetDefault(d, k, v) == IF Contains(d, k) THEN d ELSE Append(d, <<k, v>>)

(***************************************************************************)
(* DFA._Node.__init__ and DFA.__init__                                     *)
(***************************************************************************)
\* Variant of Node: is_final initialised to True.
Node_final == [children |-> <<>>, is_final |-> TRUE]

Node == [children |-> <<>>, is_final |-> FALSE]

\* a DFA object: its heap of nodes and its two attributes
Self == [nodes |-> nodes, root |-> root, trap_node |-> trap_node]

\* Variant of NewDFA: `self._trap_node = self._root`, one object under
\* both attributes.
NewDFA_alias(r, t) ==
    [nodes |-> (r :> Node) @@ (t :> Node), root |-> r, trap_node |-> r]

\* DFA() with its two nodes placed at the addresses r and t
NewDFA(r, t) ==
    [nodes |-> (r :> Node) @@ (t :> Node), root |-> r, trap_node |-> t]

\* the addresses no object occupies, lowest first
RECURSIVE FreeFrom(_, _)
FreeFrom(h, a) ==
    IF a \notin Addr THEN <<>>
    ELSE IF a \in DOMAIN h THEN FreeFrom(h, a + 1)
    ELSE <<a>> \o FreeFrom(h, a + 1)

Free(h) == FreeFrom(h, 0)

(***************************************************************************)
(* DFA.insert                                                              *)
(***************************************************************************)
\* The loop of insert from `node` over the rest of the word.  Every pass
\* builds a _Node at Head(fresh); when setdefault stores it under ch it stays
\* on the heap, otherwise the object is dropped and its address is free again.
\* Variant of insert_loop: one _Node built before the loop and handed to
\* every setdefault of the call, so that all the children the call stores
\* are the same object.
RECURSIVE insert_loop_shared(_, _, _, _)
insert_loop_shared(h, node, word, fresh) ==
    IF word = <<>>
    THEN [h EXCEPT ![node].is_final = TRUE]
    ELSE LET ch     == Head(word)
             new    == Head(fresh)
             kids   == SetDefault(h[node].children, ch, new)
             next   == GetItem(kids, ch).val
             h2     == [a \in DOMAIN h \cup {next} |->
                          LET cur == IF a \in DOMAIN h THEN h[a] ELSE Node
                          IN  IF a = node THEN [cur EXCEPT !.children = kids]
                              ELSE cur]
         IN  insert_loop_shared(h2, next, Tail(word), fresh)

\* Variant of insert_loop: `node.is_final = True` inside the for loop, every
\* node the word passes being marked and the root never.
RECURSIVE insert_loop_mark_each(_, _, _, _)
insert_loop_mark_each(h, node, word, fresh) ==
    IF word = <<>>
    THEN h
    ELSE LET ch     == Head(word)
             new    == Head(fresh)
             kids   == SetDefault(h[node].children, ch, new)
             next   == GetItem(kids, ch).val
             stored == next = new
             h2     == [a \in DOMAIN h \cup {next} |->
                          LET cur == IF a \in DOMAIN h THEN h[a] ELSE Node
                          IN  IF a = node THEN [cur EXCEPT !.children = kids]
                              ELSE IF a = next THEN [cur EXCEPT !.is_final = TRUE]
                              ELSE cur]
         IN  insert_loop_mark_each(h2, next, Tail(word),
                                   IF stored THEN Tail(fresh) ELSE fresh)

\* Variant of insert_loop: every node the word passes through has its
\* is_final reset, only the node the word ends on being marked.
RECURSIVE insert_loop_unmark(_, _, _, _)
insert_loop_unmark(h, node, word, fresh) ==
    IF word = <<>>
    THEN [h EXCEPT ![node].is_final = TRUE]
    ELSE LET ch     == Head(word)
             new    == Head(fresh)
             kids   == SetDefault(h[node].children, ch, new)
             next   == GetItem(kids, ch).val
             stored == next = new
             h2     == [a \in DOMAIN h \cup {next} |->
                          LET cur == IF a \in DOMAIN h THEN h[a] ELSE Node
                          IN  IF a = node
                              THEN [children |-> kids, is_final |-> FALSE]
                              ELSE cur]
         IN  insert_loop_unmark(h2, next, Tail(word),
                                IF stored THEN Tail(fresh) ELSE fresh)

RECURSIVE insert_loop(_, _, _, _)
insert_loop(h, node, word, fresh) ==
    IF word = <<>>
    THEN [h EXCEPT ![node].is_final = TRUE]
    ELSE LET ch     == Head(word)
             new    == Head(fresh)
             kids   == SetDefault(h[node].children, ch, new)
             next   == GetItem(kids, ch).val
             stored == next = new
             h2     == IF stored
                       THEN [a \in DOMAIN h \cup {new} |->
                               IF a = new THEN Node
                               ELSE IF a = node THEN [h[a] EXCEPT !.children = kids]
                               ELSE h[a]]
                       ELSE h
         IN  insert_loop(h2, next, Tail(word),
                         IF stored THEN Tail(fresh) ELSE fresh)

insert(d, word, fresh) ==
    [d EXCEPT !.nodes = insert_loop(d.nodes, d.root, word, fresh)]

\* the number of nodes insert(word) creates and keeps
RECURSIVE Missing(_, _, _)
Missing(h, node, word) ==
    IF word = <<>> THEN 0
    ELSE IF Contains(h[node].children, Head(word))
         THEN Missing(h, GetItem(h[node].children, Head(word)).val, Tail(word))
         ELSE Len(word)

(***************************************************************************)
(* DFA.accepts                                                             *)
(***************************************************************************)
\* Variant of accepts_loop: a symbol without a transition is passed over as
\* punctuation is, the scan going on from the same node.
RECURSIVE accepts_loop_stay(_, _, _)
accepts_loop_stay(d, node, text) ==
    IF text = <<>> THEN Value(node)
    ELSE LET ch == Head(text)
         IN  IF ch \in punctuation \/ ~Contains(d.nodes[node].children, ch)
             THEN accepts_loop_stay(d, node, Tail(text))
             ELSE accepts_loop_stay(d, GetItem(d.nodes[node].children, ch).val, Tail(text))

\* Variant of accepts_loop: without the test that passes over punctuation.
RECURSIVE accepts_loop_noskip(_, _, _)
accepts_loop_noskip(d, node, text) ==
    IF text = <<>> THEN Value(node)
    ELSE IF ~Contains(d.nodes[node].children, Head(text))
         THEN Value(d.trap_node)
         ELSE accepts_loop_noskip(d, GetItem(d.nodes[node].children, Head(text)).val,
                                  Tail(text))

\* Variant of accepts_loop: without the test `ch not in node.children`, the
\* subscript node.children[ch] being made for every symbol.
RECURSIVE accepts_loop_unguarded(_, _, _)
accepts_loop_unguarded(d, node, text) ==
    IF text = <<>> THEN Value(node)
    ELSE LET ch == Head(text)
         IN  IF ch \in punctuation
             THEN accepts_loop_unguarded(d, node, Tail(text))
             ELSE LET next == GetItem(d.nodes[node].children, ch)
                  IN  IF next.exc # "None" THEN next
                      ELSE accepts_loop_unguarded(d, next.val, Tail(text))

\* Variant of accepts_loop: the break without `node = self._trap_node`, the
\* scan ending on the node that has no transition for the symbol.
RECURSIVE accepts_loop_break_only(_, _, _)
accepts_loop_break_only(d, node, text) ==
    IF text = <<>> THEN Value(node)
    ELSE LET ch == Head(text)
         IN  IF ch \in punctuation
             THEN accepts_loop_break_only(d, node, Tail(text))
             ELSE IF ~Contains(d.nodes[node].children, ch)
                  THEN Value(node)
                  ELSE LET next == GetItem(d.nodes[node].children, ch)
                       IN  IF next.exc # "None" THEN next
                           ELSE accepts_loop_break_only(d, next.val, Tail(text))

\* The for loop of accepts: the node the scan of `text` from `node` ends on.
RECURSIVE accepts_loop(_, _, _)
accepts_loop(d, node, text) ==
    IF text = <<>> THEN Value(node)
    ELSE LET ch == Head(text)
         IN  IF ch \in punctuation
             THEN accepts_loop(d, node, Tail(text))              \* continue
             ELSE IF ~Contains(d.nodes[node].children, ch)
                  THEN Value(d.trap_node)                        \* break
                  ELSE LET next == GetItem(d.nodes[node].children, ch)
                       IN  IF next.exc # "None" THEN next
                           ELSE accepts_loop(d, next.val, Tail(text))

\* Variant of accepts: any node but the trap node accepts, final or not.
accepts_reached(d, text) ==
    LET node == accepts_loop(d, d.root, text)
    IN  IF node.exc # "None" THEN node
        ELSE Value(node.val # d.trap_node)

accepts(d, text) ==
    LET node == accepts_loop(d, d.root, text)
    IN  IF node.exc # "None" THEN node
        ELSE IF node.val = d.trap_node THEN Value(FALSE)
        ELSE Value(d.nodes[node.val].is_final)

(***************************************************************************)
(* DFA.to_dot                                                              *)
(***************************************************************************)
\* `s.replace(old, new)` for a one-character old: s and new are sequences
\* of characters
RECURSIVE replace(_, _, _)
replace(s, old, new) ==
    IF s = <<>> THEN <<>>
    ELSE (IF Head(s) = old THEN new ELSE <<Head(s)>>) \o replace(Tail(s), old, new)

\* the str a sequence of characters spells
RECURSIVE Str(_)
Str(s) == IF s = <<>> THEN "" ELSE Head(s) \o Str(Tail(s))

\* `sep.join(lines)`
RECURSIVE join(_, _)
join(sep, lines) ==
    IF lines = <<>> THEN ""
    ELSE IF Len(lines) = 1 THEN lines[1]
    ELSE lines[1] \o sep \o join(sep, Tail(lines))

\* Variant of get_id: the identifier made from the object's address, as
\* f"Q{id(n)}" would.
get_id_address(node_ids, n) ==
    LET ids == IF ~Contains(node_ids, n)
               THEN SetItem(node_ids, n, "Q" \o ToString(n))
               ELSE node_ids
    IN  [node_ids |-> ids, out |-> GetItem(ids, n)]

\* Variant of get_id: the identifiers counted from one, as
\* f"Q{len(node_ids) + 1}" would.
get_id_from_one(node_ids, n) ==
    LET ids == IF ~Contains(node_ids, n)
               THEN SetItem(node_ids, n, "Q" \o ToString(Len(node_ids) + 1))
               ELSE node_ids
    IN  [node_ids |-> ids, out |-> GetItem(ids, n)]

\* get_id(n): the dict node_ids afterwards and the outcome of the call
get_id(node_ids, n) ==
    LET ids == IF ~Contains(node_ids, n)
               THEN SetItem(node_ids, n, "Q" \o ToString(Len(node_ids)))
               ELSE node_ids
    IN  [node_ids |-> ids, out |-> GetItem(ids, n)]

\* the list `lines` as first built: the literal has no comma between its
\* last two strings, which Python joins into one
Preamble ==
    << "digraph DFA {",
       "  rankdir=LR;",
       "  graph [bgcolor=\"#131a2e\"];",
       "  node [shape=circle, style=filled, fillcolor=\"#103c69\", color=\"#2B65EC\", fontcolor=\"white\", fontname=\"Courier\"];"
          \o "  edge [fontcolor=\"#00f7ff\", color=\"#00f7ff\", fontname=\"Courier\"];" >>

StartNodeLine == "  __start__ [shape=none,label=\"\"];"
StartEdgeLine(root_id) == "  __start__ -> " \o root_id \o ";"
FinalLine(nid) ==
    "  " \o nid \o " [shape=doublecircle, style=filled, fillcolor=\"#66CC66\", color=\"#339933\", fontcolor=\"white\"];"
EdgeLine(nid, cid, label) ==
    "  " \o nid \o " -> " \o cid \o " [label=\"" \o label \o "\"];"

\* Variant of Label: the symbol as it is, nothing escaped.
Label_raw(ch) == ch

\* the label of an edge: backslashes and quotes of ch escaped
Label(ch) == Str(replace(replace(<<ch>>, "\\", <<"\\", "\\">>), "\"", <<"\\", "\"">>))

\* Variant of to_dot_items: the loop over reversed(node.children.items()),
\* the transition stored last taken first.
RECURSIVE to_dot_items_reversed(_, _, _)
to_dot_items_reversed(st, nid, items) ==
    IF items = <<>> \/ st.exc # "None" THEN st
    ELSE LET ch    == items[Len(items)][1]
             child == items[Len(items)][2]
             g     == get_id(st.node_ids, child)
             new   == child \notin st.seen
         IN  IF g.out.exc # "None" THEN [st EXCEPT !.exc = g.out.exc]
             ELSE to_dot_items_reversed(
                 [lines    |-> Append(st.lines, EdgeLine(nid, g.out.val, Label(ch))),
                  node_ids |-> g.node_ids,
                  seen     |-> IF new THEN st.seen \cup {child} ELSE st.seen,
                  queue    |-> IF new THEN Append(st.queue, child) ELSE st.queue,
                  dequeued |-> st.dequeued,
                  exc      |-> "None"],
                 nid, SubSeq(items, 1, Len(items) - 1))

\* the for loop over node.children.items(), in the dict's order; st holds
\* the locals lines, node_ids, queue and seen, exc once a call raised, and
\* `dequeued`, the nodes queue.popleft() has returned so far, in order
RECURSIVE to_dot_items(_, _, _)
to_dot_items(st, nid, items) ==
    IF items = <<>> \/ st.exc # "None" THEN st
    ELSE LET ch    == Head(items)[1]
             child == Head(items)[2]
             g     == get_id(st.node_ids, child)
             new   == child \notin st.seen
         IN  IF g.out.exc # "None" THEN [st EXCEPT !.exc = g.out.exc]
             ELSE to_dot_items(
                 [lines    |-> Append(st.lines, EdgeLine(nid, g.out.val, Label(ch))),
                  node_ids |-> g.node_ids,
                  seen     |-> IF new THEN st.seen \cup {child} ELSE st.seen,
                  queue    |-> IF new THEN Append(st.queue, child) ELSE st.queue,
                  dequeued |-> st.dequeued,
                  exc      |-> "None"],
                 nid, Tail(items))

\* Variant of to_dot_while: without the test of node.is_final, every node
\* dequeued getting the doublecircle line.
RECURSIVE to_dot_while_all(_, _)
to_dot_while_all(d, st) ==
    IF st.queue = <<>> \/ st.exc # "None" THEN st
    ELSE LET node == Head(st.queue)
             g    == get_id(st.node_ids, node)
             st1  == [st EXCEPT
                        !.queue = Tail(st.queue),
                        !.dequeued = Append(st.dequeued, node),
                        !.node_ids = g.node_ids,
                        !.lines = Append(st.lines, FinalLine(g.out.val))]
         IN  IF g.out.exc # "None" THEN [st EXCEPT !.exc = g.out.exc]
             ELSE to_dot_while_all(d, to_dot_items(st1, g.out.val, d.nodes[node].children))

\* the while loop over the queue
RECURSIVE to_dot_while(_, _)
to_dot_while(d, st) ==
    IF st.queue = <<>> \/ st.exc # "None" THEN st
    ELSE LET node == Head(st.queue)
             g    == get_id(st.node_ids, node)
             st1  == [st EXCEPT
                        !.queue = Tail(st.queue),
                        !.dequeued = Append(st.dequeued, node),
                        !.node_ids = g.node_ids,
                        !.lines = IF d.nodes[node].is_final
                                  THEN Append(st.lines, FinalLine(g.out.val))
                                  ELSE st.lines]
         IN  IF g.out.exc # "None" THEN [st EXCEPT !.exc = g.out.exc]
             ELSE to_dot_while(d, to_dot_items(st1, g.out.val, d.nodes[node].children))

\* the locals of to_dot when its loop has ended
to_dot_locals(d) ==
    LET g == get_id(<<>>, d.root)
    IN  IF g.out.exc # "None"
        THEN [lines |-> Preamble \o <<StartNodeLine>>, node_ids |-> g.node_ids,
              queue |-> <<>>, seen |-> {}, dequeued |-> <<>>, exc |-> g.out.exc]
        ELSE to_dot_while(d,
                [lines    |-> Preamble \o <<StartNodeLine, StartEdgeLine(g.out.val)>>,
                 node_ids |-> g.node_ids,
                 queue    |-> <<d.root>>,
                 seen     |-> {d.root},
                 dequeued |-> <<>>,
                 exc      |-> "None"])

\* Variant of to_dot_lines: without the closing line.
to_dot_lines_open(d) == to_dot_locals(d).lines

\* the list `lines` when to_dot returns
to_dot_lines(d) == Append(to_dot_locals(d).lines, "}")

to_dot(d) ==
    IF to_dot_locals(d).exc # "None" THEN Raise(to_dot_locals(d).exc)
    ELSE Value(join("\n", to_dot_lines(d)))

(***************************************************************************)
(* The state machine: one DFA object and the calls made on it.  `ret` is    *)
(* the last call: its name and what it returned or raised; `inserted` is   *)
(* the set of the words insert has been given.                             *)
(***************************************************************************)
Init ==
    /\ nodes = NewDFA(0, 1).nodes
    /\ root = NewDFA(0, 1).root
    /\ trap_node = NewDFA(0, 1).trap_node
    /\ ret = [op |-> "__init__", repeat |-> FALSE, out |-> Value("None")]
    /\ inserted = {}
    /\ twin = NewDFA(0, 1)

\* insert(w); ret.repeat tells whether w had been given before
Insert(w) ==
    /\ Cardinality(DOMAIN nodes) + Missing(nodes, root, w) <= MaxNodes
    /\ nodes' = insert(Self, w, Free(nodes)).nodes
    /\ ret' = [op |-> "insert", repeat |-> w \in inserted, out |-> Value("None")]
    /\ inserted' = inserted \cup {w}
    /\ UNCHANGED <<root, trap_node, twin>>

\* the heap when a scan that advances by
\* `node = node.children.setdefault(ch, self._trap_node)` has run: the trap
\* node stored as the child for the first symbol without a transition
RECURSIVE scan_setdefault(_, _, _)
scan_setdefault(d, node, text) ==
    IF text = <<>> \/ node = d.trap_node THEN d.nodes
    ELSE IF Head(text) \in punctuation THEN scan_setdefault(d, node, Tail(text))
    ELSE LET kids == SetDefault(d.nodes[node].children, Head(text), d.trap_node)
         IN  scan_setdefault([d EXCEPT !.nodes[node].children = kids],
                             GetItem(kids, Head(text)).val, Tail(text))

\* Variant of Accepts: accepts with that scan, which writes to the tree.
Accepts_setdefault(t) ==
    /\ ret' = [op |-> "accepts", repeat |-> FALSE, out |-> accepts(Self, t)]
    /\ nodes' = scan_setdefault(Self, root, t)
    /\ UNCHANGED <<root, trap_node, inserted, twin>>

Accepts(t) ==
    /\ ret' = [op |-> "accepts", repeat |-> FALSE, out |-> accepts(Self, t)]
    /\ UNCHANGED <<nodes, root, trap_node, inserted, twin>>

ToDot ==
    /\ ret' = [op |-> "to_dot", repeat |-> FALSE, out |-> to_dot(Self)]
    /\ UNCHANGED <<nodes, root, trap_node, inserted, twin>>

Next ==
    \/ \E w \in Words : Insert(w)
    \/ \E t \in Texts : Accepts(t)
    \/ ToDot

Spec == Init /\ [][Next]_vars

(***************************************************************************)
(* The construction alone: a DFA object on which only insert is called.    *)
(***************************************************************************)
NextBuild == \E w \in Words : Insert(w)

SpecBuild == Init /\ [][NextBuild]_vars

(***************************************************************************)
(* Construction and export: a DFA object on which insert and to_dot are    *)
(* called.                                                                 *)
(***************************************************************************)
NextExport ==
    \/ \E w \in Words : Insert(w)
    \/ ToDot

SpecExport == Init /\ [][NextExport]_vars

(***************************************************************************)
(* Construction and export with words over Symbols.                        *)
(***************************************************************************)
NextLabel ==
    \/ \E w \in LabelWords : Insert(w)
    \/ ToDot

SpecLabel == Init /\ [][NextLabel]_vars

(***************************************************************************)
(* Two DFA objects given the same calls.  The second, `twin`, has its      *)
(* nodes at other addresses: either its root and trap node have changed    *)
(* places and each new node is at the lowest free address, or the nodes    *)
(* are laid out from the highest address downwards.                        *)
(***************************************************************************)
RECURSIVE Reverse(_)
Reverse(s) == IF s = <<>> THEN <<>> ELSE Append(Reverse(Tail(s)), Head(s))

TwinFresh(d) == IF d.root < MaxNodes THEN Free(d.nodes) ELSE Reverse(Free(d.nodes))

InitTwin ==
    /\ nodes = NewDFA(0, 1).nodes
    /\ root = NewDFA(0, 1).root
    /\ trap_node = NewDFA(0, 1).trap_node
    /\ ret = [op |-> "__init__", repeat |-> FALSE, out |-> Value("None")]
    /\ inserted = {}
    /\ \E rt \in {<<1, 0>>, <<2 * MaxNodes - 1, 2 * MaxNodes - 2>>} :
          twin = NewDFA(rt[1], rt[2])

InsertBoth(w) ==
    /\ Cardinality(DOMAIN nodes) + Missing(nodes, root, w) <= MaxNodes
    /\ nodes' = insert(Self, w, Free(nodes)).nodes
    /\ twin' = insert(twin, w, TwinFresh(twin))
    /\ ret' = [op |-> "insert", repeat |-> w \in inserted, out |-> Value("None")]
    /\ inserted' = inserted \cup {w}
    /\ UNCHANGED <<root, trap_node>>

ToDotBoth ==
    /\ ret' = [op |-> "to_dot", repeat |-> FALSE, out |-> to_dot(Self),
               twin_out |-> to_dot(twin)]
    /\ UNCHANGED <<nodes, root, trap_node, inserted, twin>>

NextTwin ==
    \/ \E w \in Words : InsertBoth(w)
    \/ ToDotBoth

SpecTwin == InitTwin /\ [][NextTwin]_vars

(***************************************************************************)
(* What the properties below speak of.                                     *)
(***************************************************************************)
\* the text without its punctuation symbols
RECURSIVE Strip(_)
Strip(t) ==
    IF t = <<>> THEN <<>>
    ELSE (IF Head(t) \in punctuation THEN <<>> ELSE <<Head(t)>>) \o Strip(Tail(t))

\* the nodes a chain of stored transitions leads to from the nodes of S
RECURSIVE Closure(_, _)
Closure(h, S) ==
    LET T == S \cup UNION {{h[n].children[i][2] : i \in 1 .. Len(h[n].children)} :
                            n \in S \cap DOMAIN h}
    IN  IF T = S THEN S ELSE Closure(h, T)

\* the nodes of the tree of d
Reach(d) == Closure(d.nodes, {d.root})

\* the node the path spelling `word` symbol by symbol leads to from `node`,
\* "none" when the path leaves the tree
RECURSIVE PathEnd(_, _, _)
PathEnd(h, node, word) ==
    IF word = <<>> THEN Value(node)
    ELSE IF Contains(h[node].children, Head(word))
         THEN PathEnd(h, GetItem(h[node].children, Head(word)).val, Tail(word))
         ELSE Raise("none")

\* the node accepts is on when it has scanned the symbols of t
ScanEnd(t) == accepts_loop(Self, root, t).val

\* the symbol t[i] is no punctuation and the node the scan of t is on when it
\* meets it is a tree node without a transition for it
NoTransitionAt(t, i) ==
    /\ t[i] \notin punctuation
    /\ LET node == ScanEnd(SubSeq(t, 1, i - 1))
       IN  node # trap_node /\ ~Contains(nodes[node].children, t[i])

(***************************************************************************)
(* The properties.                                                         *)
(***************************************************************************)
\* C1: once insert(w) has run, accepts(w) returns True, for every word w,
\* words containing punctuation symbols included.
C1_InsertThenAccepts ==
    \A w \in inserted : accepts(Self, w) = Value(TRUE)

\* C2: a text whose non-punctuation symbols spell an inserted word is
\* accepted, however many punctuation symbols stand before, between or after
\* them.
C2_PunctuationSkipped ==
    \A t \in Texts : Strip(t) \in inserted => accepts(Self, t) = Value(TRUE)

\* C2 happens: accepts has returned True, and a text with punctuation before,
\* inside and after a two-letter inserted word is accepted.
C2_Witness ==
    /\ ret.op = "accepts" /\ ret.out = Value(TRUE)
    /\ \E t \in Texts :
          /\ Len(t) = 3 /\ Len(Strip(t)) = 2
          /\ Strip(t) \in inserted
          /\ accepts(Self, t) = Value(TRUE)
    /\ \E t \in Texts :
          /\ Len(t) = 3 /\ Len(Strip(t)) = 1 /\ t[2] \notin punctuation
          /\ Strip(t) \in inserted
          /\ accepts(Self, t) = Value(TRUE)

\* C3: accepts returns True only when the scan ends on a tree node whose
\* is_final is set, that is only when the text without its punctuation is
\* one of the inserted words; prefixes and extensions not inserted are
\* rejected.
C3_OnlyInsertedAccepted ==
    \A t \in Texts :
        accepts(Self, t) = Value(TRUE) =>
            /\ ScanEnd(t) # trap_node
            /\ ScanEnd(t) \in Reach(Self)
            /\ nodes[ScanEnd(t)].is_final
            /\ Strip(t) \in inserted

\* C3 happens: two inserted words share a prefix that was not inserted; both
\* are accepted, the prefix and an extension are rejected, and accepts has
\* returned False.
C3_Witness ==
    /\ ret.op = "accepts" /\ ret.out = Value(FALSE)
    /\ \E w1, w2 \in inserted :
          /\ Len(w1) = 2 /\ Len(w2) = 2 /\ w1 # w2 /\ w1[1] = w2[1]
          /\ Strip(w1) = w1 /\ Strip(w2) = w2
          /\ <<w1[1]>> \notin inserted
          /\ accepts(Self, w1) = Value(TRUE) /\ accepts(Self, w2) = Value(TRUE)
          /\ accepts(Self, <<w1[1]>>) = Value(FALSE)
          /\ accepts(Self, Append(w1, w1[1])) = Value(FALSE)

\* C4: when the scan meets a non-punctuation symbol the current node has no
\* transition for, accepts returns False whatever symbols follow.
C4_SinkAbsorbing ==
    \A t \in Texts :
        \/ accepts(Self, t) = Value(FALSE)
        \/ \A i \in 1 .. Len(t) : ~NoTransitionAt(t, i)

\* C4 happens: accepts has returned False, and in some text the symbol
\* without a transition is followed by symbols that are accepted by
\* themselves.
C4_Witness ==
    /\ ret.op = "accepts" /\ ret.out = Value(FALSE)
    /\ \E t \in Texts : \E i \in 1 .. Len(t) - 1 :
          /\ NoTransitionAt(t, i)
          /\ Strip(SubSeq(t, i + 1, Len(t))) # <<>>
          /\ accepts(Self, SubSeq(t, i + 1, Len(t))) = Value(TRUE)
          /\ accepts(Self, t) = Value(FALSE)

\* C5: accepts of the empty text and of a text of punctuation symbols only
\* is the root's is_final, which is set exactly when the empty word has been
\* inserted.
C5_EmptyTextIsRootFlag ==
    /\ \A t \in Texts :
          Strip(t) = <<>> => accepts(Self, t) = Value(nodes[root].is_final)
    /\ nodes[root].is_final <=> <<>> \in inserted

\* C5 happens: the empty word has been inserted beside a non-empty one, and
\* accepts has returned True, as it does for a text of punctuation only.
C5_Witness ==
    /\ ret.op = "accepts" /\ ret.out = Value(TRUE)
    /\ <<>> \in inserted
    /\ inserted # {<<>>}
    /\ accepts(Self, <<>>) = Value(TRUE)
    /\ accepts(Self, <<"\"", "\"">>) = Value(TRUE)

\* C6: inserting again a word that was inserted adds no node to the tree,
\* leaves the node the word ends on final, and leaves the result of accepts
\* the same on every text (as it is when the object is left as it was).
C6_InsertIdempotent ==
    LET tree == Reach(Self)
    IN  \A w \in inserted :
            LET again == insert(Self, w, Free(nodes))
                end   == PathEnd(again.nodes, root, w)
            IN  /\ Reach(again) = tree
                /\ end.exc = "None"
                /\ again.nodes[end.val].is_final
                /\ \/ again = Self
                   \/ \A t \in Texts : accepts(again, t) = accepts(Self, t)

\* C6 happens: insert has run on a word of two symbols or more that had been
\* inserted before, other words being in the tree.
C6_Witness ==
    /\ ret.op = "insert" /\ ret.repeat
    /\ \E w \in inserted : Len(w) >= 2
    /\ Cardinality(inserted) >= 2
    /\ Cardinality(Reach(Self)) >= 4

\* the number of lines of `lines` that are the line s
Count(lines, s) == Cardinality({i \in 1 .. Len(lines) : lines[i] = s})

\* the identifiers to_dot can give
Ids == {"Q" \o ToString(k) : k \in 0 .. 2 * MaxNodes}

\* the doublecircle line of the identifier id
DoubleCircle(id) ==
    "  " \o id \o " [shape=doublecircle, style=filled, fillcolor=\"#66CC66\", color=\"#339933\", fontcolor=\"white\"];"

\* C7: two DFA objects built by the same sequence of insert calls return the
\* same string from to_dot, wherever their nodes are in memory.
C7_ExportDeterministic ==
    /\ to_dot(twin) = to_dot(Self)
    /\ ret.op = "to_dot" => ret.twin_out = ret.out

\* C7 happens: to_dot has run on both objects, whose trees branch and whose
\* nodes are at different addresses, in a different order of addresses.
C7_Witness ==
    /\ ret.op = "to_dot"
    /\ Len(nodes[root].children) >= 2
    /\ Cardinality(Reach(Self)) >= 4
    /\ Reach(twin) # Reach(Self)
    /\ \E i, j \in 1 .. Len(nodes[root].children) :
          /\ nodes[root].children[i][2] < nodes[root].children[j][2]
          /\ twin.nodes[twin.root].children[i][2] > twin.nodes[twin.root].children[j][2]

\* C8: in the lines of to_dot every node of the tree whose is_final is set
\* has exactly one doublecircle line under its own identifier, and no other
\* node and no other identifier has one.
C8_FinalNodesMarked ==
    LET locals == to_dot_locals(Self)
        lines  == Append(locals.lines, "}")
        tree   == Reach(Self)
    IN  /\ lines = to_dot_lines(Self)
        /\ \A n \in tree :
              /\ Contains(locals.node_ids, n)
              /\ Count(lines, DoubleCircle(GetItem(locals.node_ids, n).val))
                    = IF nodes[n].is_final THEN 1 ELSE 0
        /\ \A id \in Ids :
              Count(lines, DoubleCircle(id)) > 0 =>
                  \E n \in tree :
                      GetItem(locals.node_ids, n) = Value(id) /\ nodes[n].is_final
        /\ \A n, m \in tree :
              GetItem(locals.node_ids, n) = GetItem(locals.node_ids, m) => n = m

\* C8 happens: to_dot has run on a tree with final nodes, a node that is not
\* final and a transition labelled with a quote.
C8_Witness ==
    /\ ret.op = "to_dot" /\ ret.out.exc = "None"
    /\ \E n \in Reach(Self) \ {root} : ~nodes[n].is_final
    /\ Cardinality({n \in Reach(Self) : nodes[n].is_final}) >= 2
    /\ \E n \in Reach(Self) : Contains(nodes[n].children, "\"")

\* C9: the lines of to_dot begin with the graph declaration, end with the
\* closing brace and hold exactly one start-marker edge, which goes to Q0,
\* the identifier of the root.
C9_ExportFrame ==
    LET lines == to_dot_lines(Self)
    IN  /\ lines[1] = "digraph DFA {"
        /\ lines[Len(lines)] = "}"
        /\ Count(lines, "  __start__ -> Q0;") = 1
        /\ \A id \in Ids \ {"Q0"} :
              Count(lines, "  __start__ -> " \o id \o ";") = 0
        /\ GetItem(to_dot_locals(Self).node_ids, root) = Value("Q0")

\* C9 happens: to_dot has run on the empty automaton.
C9_Witness ==
    /\ ret.op = "to_dot" /\ ret.out.exc = "None"
    /\ DOMAIN nodes = {root, trap_node}
    /\ inserted = {}

\* C10: no call ends with an exception: insert, accepts on every text and
\* to_dot return, and accepts returns False for a text with a symbol that
\* has no transition.
C10_Total ==
    /\ ret.out.exc = "None"
    /\ to_dot(Self).exc = "None"
    /\ \A t \in Texts :
          LET result == accepts(Self, t)
          IN  /\ result \in {Value(TRUE), Value(FALSE)}
              /\ result = Value(TRUE) => accepts_loop(Self, root, t) # Value(trap_node)

\* C10 happens: the empty word, a word of punctuation only and a word given
\* twice have been inserted, and accepts has returned False for a text with
\* a symbol that has no transition.
C10_Witness ==
    /\ ret.op = "accepts" /\ ret.out = Value(FALSE)
    /\ <<>> \in inserted
    /\ <<"\"">> \in inserted
    /\ \E t \in Texts : \E i \in 1 .. Len(t) : NoTransitionAt(t, i)

\* the stored transitions that lead to the node n: the pairs of a node of S
\* and a position in its children
Incoming(h, S, n) ==
    {pi \in UNION {{<<p, i>> : i \in 1 .. Len(h[p].children)} : p \in S} :
        h[pi[1]].children[pi[2]][2] = n}

\* the nodes the transitions of n lead to
ChildrenOf(h, n) == {h[n].children[i][2] : i \in 1 .. Len(h[n].children)}

\* C11: the nodes reachable from the root form a tree: no node is reached
\* again from its own children, no transition leads to the root, exactly one
\* transition leads to every other node, and a node has at most one
\* transition per symbol.
C11_ReachableIsTree ==
    LET tree == Reach(Self)
    IN  /\ Incoming(nodes, tree, root) = {}
        /\ \A n \in tree \ {root} : Cardinality(Incoming(nodes, tree, n)) = 1
        /\ \A n \in tree : n \notin Closure(nodes, ChildrenOf(nodes, n))
        /\ \A n \in tree : \A i, j \in 1 .. Len(nodes[n].children) :
              nodes[n].children[i][1] = nodes[n].children[j][1] => i = j
        /\ Cardinality(tree) = 1 +
              Cardinality(UNION {Incoming(nodes, tree, n) : n \in tree})

\* C11 happens: insert has built a tree of four nodes in which a node has
\* two children and a path has two transitions, one of the words extending
\* a path already there.
C11_Witness ==
    /\ ret.op = "insert"
    /\ Cardinality(Reach(Self)) >= 4
    /\ \E n \in Reach(Self) : Len(nodes[n].children) >= 2
    /\ \E n \in Reach(Self) \ {root} : nodes[n].children # <<>>
    /\ \E w \in inserted : Len(w) >= 2

\* the prefixes of the inserted words, the empty one included
Prefixes == {<<>>} \cup UNION {{SubSeq(w, 1, k) : k \in 0 .. Len(w)} : w \in inserted}

\* the length of the longest prefix of `word` whose path from `node` is in
\* the tree
RECURSIVE PathLen(_, _, _)
PathLen(h, node, word) ==
    IF word = <<>> \/ ~Contains(h[node].children, Head(word)) THEN 0
    ELSE 1 + PathLen(h, GetItem(h[node].children, Head(word)).val, Tail(word))

LongestPath(w) == PathLen(nodes, root, w)

\* C12: the nodes of the tree are one-to-one with the prefixes of the
\* inserted words: the path of every prefix is in the tree, two prefixes end
\* on two nodes, every node is the end of one, and a node is final exactly
\* when its prefix is an inserted word; insert(w) adds len(w) less the
\* length of the longest path of a prefix of w nodes.
C12_NodesArePrefixes ==
    LET tree == Reach(Self)
    IN  /\ \A p \in Prefixes :
              LET end == PathEnd(nodes, root, p)
              IN  /\ end.exc = "None"
                  /\ end.val \in tree
                  /\ nodes[end.val].is_final <=> p \in inserted
        /\ \A p, q \in Prefixes :
              PathEnd(nodes, root, p) = PathEnd(nodes, root, q) => p = q
        /\ \A n \in tree : \E p \in Prefixes : PathEnd(nodes, root, p) = Value(n)
        /\ Cardinality(tree) = Cardinality(Prefixes)
        /\ \A w \in Words :
              LET after == insert(Self, w, Free(nodes))
              IN  /\ Cardinality(DOMAIN after.nodes) - Cardinality(DOMAIN nodes)
                        = Len(w) - LongestPath(w)
                  /\ Cardinality(Reach(after)) - Cardinality(tree)
                        = Len(w) - LongestPath(w)

\* C12 happens: insert has run, two inserted words share a prefix that is
\* no inserted word, and a word is a proper prefix of another.
C12_Witness ==
    /\ ret.op = "insert"
    /\ \E v, w \in inserted :
          /\ v # w /\ Len(v) >= 2 /\ Len(w) >= 2
          /\ v[1] = w[1] /\ <<v[1]>> \notin inserted
    /\ Cardinality(Reach(Self)) >= 4

\* the lines to_dot writes for the nodes and transitions of the tree S under
\* the identifiers ids
TreeLines(h, S, ids) ==
    {DoubleCircle(GetItem(ids, n).val) : n \in S}
    \cup UNION {{EdgeLine(GetItem(ids, n).val,
                          GetItem(ids, h[n].children[i][2]).val,
                          Label(h[n].children[i][1])) :
                    i \in 1 .. Len(h[n].children)} : n \in S}

\* C13: the trap node has no children and is not final, is no node of the
\* tree and the target of no stored transition; to_dot gives it no
\* identifier, and every line it writes after the start edge is the line of
\* a tree node or of a transition between tree nodes.
C13_TrapNodeApart ==
    LET tree   == Reach(Self)
        locals == to_dot_locals(Self)
        lines  == locals.lines
        frame  == Len(Preamble) + 2
    IN  /\ trap_node \in DOMAIN nodes
        /\ nodes[trap_node] = [children |-> <<>>, is_final |-> FALSE]
        /\ trap_node # root
        /\ trap_node \notin tree
        /\ Incoming(nodes, DOMAIN nodes, trap_node) = {}
        /\ ~Contains(locals.node_ids, trap_node)
        /\ \A i \in 1 .. Len(locals.node_ids) : locals.node_ids[i][1] \in tree
        /\ \A i \in (frame + 1) .. Len(lines) :
              lines[i] \in TreeLines(nodes, tree, locals.node_ids)

\* C13 happens: to_dot has run on a tree of four nodes, and the scan of a
\* text ends on the trap node.
C13_Witness ==
    /\ ret.op = "to_dot" /\ ret.out.exc = "None"
    /\ Cardinality(Reach(Self)) >= 4
    /\ \E t \in Texts : accepts_loop(Self, root, t) = Value(trap_node)

\* the heap g holds all that the heap h holds: every node of h, with the
\* transitions it has in h, in the same order and to the same nodes, before
\* any other, and with is_final set when it is set in h
Extends(h, g) ==
    \A n \in DOMAIN h :
        /\ n \in DOMAIN g
        /\ Len(g[n].children) >= Len(h[n].children)
        /\ SubSeq(g[n].children, 1, Len(h[n].children)) = h[n].children
        /\ h[n].is_final => g[n].is_final

\* the texts accepted
Accepted(d) == {t \in Texts : accepts(d, t) = Value(TRUE)}

\* C14: an insert removes no node and no transition, redirects no
\* transition and resets no is_final, and every text accepted before it is
\* accepted after it.
C14_AddOnly ==
    [][ /\ Extends(nodes, nodes')
        /\ root' = root /\ trap_node' = trap_node
        /\ \A t \in Accepted(Self) :
              accepts([nodes |-> nodes', root |-> root', trap_node |-> trap_node'], t)
                 = Value(TRUE) ]_vars

\* C14 happens: an insert of a new word has run on an automaton that held
\* two words already, a text with punctuation is accepted, and a final node
\* below the root has children.
C14_Witness ==
    /\ ret.op = "insert" /\ ~ret.repeat
    /\ Cardinality(inserted) >= 3
    /\ \E t \in Accepted(Self) : Strip(t) # t
    /\ \E n \in Reach(Self) \ {root} : nodes[n].is_final /\ nodes[n].children # <<>>

\* C15: to_dot gives the n nodes of the tree the n identifiers Q0 .. Q(n-1),
\* one each and each to one node, Q0 to the root, and its loop takes every
\* node of the tree from the queue exactly once and ends with the queue
\* empty.
C15_IdsBijective ==
    LET tree   == Reach(Self)
        n      == Cardinality(tree)
        locals == to_dot_locals(Self)
        ids    == locals.node_ids
        deq    == locals.dequeued
    IN  /\ locals.exc = "None"
        /\ Len(ids) = n
        /\ {ids[i][1] : i \in 1 .. n} = tree
        /\ {ids[i][2] : i \in 1 .. n} = {"Q" \o ToString(k) : k \in 0 .. (n - 1)}
        /\ \A i, j \in 1 .. n :
              (ids[i][1] = ids[j][1] \/ ids[i][2] = ids[j][2]) => i = j
        /\ GetItem(ids, root) = Value("Q0")
        /\ Len(deq) = n
        /\ {deq[i] : i \in 1 .. n} = tree
        /\ locals.queue = <<>>
        /\ locals.seen = tree

\* C15 happens: to_dot has run on a tree of four nodes that branches below
\* the root.
C15_Witness ==
    /\ ret.op = "to_dot" /\ ret.out.exc = "None"
    /\ Cardinality(Reach(Self)) >= 4
    /\ \E n \in Reach(Self) \ {root} : Len(nodes[n].children) >= 2

\* the nodes k transitions below the nodes of S
RECURSIVE Level(_, _, _)
Level(h, S, k) ==
    IF k = 0 THEN S ELSE Level(h, UNION {ChildrenOf(h, n) : n \in S}, k - 1)

\* the number of transitions from the root to the tree node n
Depth(n) == CHOOSE k \in 0 .. Cardinality(DOMAIN nodes) : n \in Level(nodes, {root}, k)

\* the place of the key n in the dict ids, counted from 0
Num(ids, n) == (CHOOSE i \in 1 .. Len(ids) : ids[i][1] = n) - 1

\* the place in `lines` of the edge line of the transition at position i of
\* the children of p
EdgePlace(lines, ids, p, i) ==
    CHOOSE k \in 1 .. Len(lines) :
        lines[k] = EdgeLine(GetItem(ids, p).val,
                            GetItem(ids, nodes[p].children[i][2]).val,
                            Label(nodes[p].children[i][1]))

Escaped(ch) ==
    IF ch = "\\" THEN "\\\\" ELSE IF ch = "\"" THEN "\\\"" ELSE ch

\* the edge line of the transition at position i of the children of p
EdgeOf(ids, p, i) ==
    "  " \o GetItem(ids, p).val \o " -> " \o GetItem(ids, nodes[p].children[i][2]).val
         \o " [label=\"" \o Escaped(nodes[p].children[i][1]) \o "\"];"

\* C17: the lines of to_dot hold, for every stored transition of the tree,
\* exactly one edge line from the identifier of the parent to the identifier
\* of the child with the escaped symbol as label, and no other edge line:
\* a tree of n nodes gives n - 1 of them.
C17_OneEdgePerTransition ==
    LET tree   == Reach(Self)
        locals == to_dot_locals(Self)
        ids    == locals.node_ids
        lines  == to_dot_lines(Self)
        trans  == UNION {{<<p, i>> : i \in 1 .. Len(nodes[p].children)} : p \in tree}
        edges  == {k \in 1 .. Len(lines) :
                     \E e \in trans : lines[k] = EdgeOf(ids, e[1], e[2])}
        finals == {n \in tree : nodes[n].is_final}
    IN  /\ \A e \in trans : Count(lines, EdgeOf(ids, e[1], e[2])) = 1
        /\ Cardinality(trans) = Cardinality(tree) - 1
        /\ Cardinality(edges) = Cardinality(tree) - 1
        /\ Len(lines) = Len(Preamble) + 2 + Cardinality(finals) + Cardinality(edges) + 1
        /\ \A k \in 1 .. Len(lines) :
              k \notin edges =>
                  \/ k <= Len(Preamble) + 2
                  \/ k = Len(lines)
                  \/ \E n \in finals : lines[k] = DoubleCircle(GetItem(ids, n).val)

\* C17 happens: to_dot has run on a tree that branches, with a transition on
\* a backslash, one on a double quote and one on a symbol to_dot does not
\* escape.
C17_Witness ==
    /\ ret.op = "to_dot" /\ ret.out.exc = "None"
    /\ \E n \in Reach(Self) : Len(nodes[n].children) >= 2
    /\ \E n \in Reach(Self) : Contains(nodes[n].children, "\\")
    /\ \E n \in Reach(Self) : Contains(nodes[n].children, "\"")
    /\ \E n \in Reach(Self) :
          Contains(nodes[n].children, "a") \/ Contains(nodes[n].children, ",")

\* The matcher that scans every symbol: punctuation is passed over, from the
\* trap node every other symbol leads to the trap node, from a tree node a
\* symbol leads to the child stored for it and to the trap node when there
\* is none.
RECURSIVE ScanAll(_, _, _)
ScanAll(d, node, text) ==
    IF text = <<>> THEN node
    ELSE LET ch == Head(text)
         IN  IF ch \in punctuation THEN ScanAll(d, node, Tail(text))
             ELSE IF node = d.trap_node THEN ScanAll(d, d.trap_node, Tail(text))
             ELSE IF \E i \in 1 .. Len(d.nodes[node].children) :
                        d.nodes[node].children[i][1] = ch
                  THEN ScanAll(d,
                          d.nodes[node].children[
                              CHOOSE i \in 1 .. Len(d.nodes[node].children) :
                                  d.nodes[node].children[i][1] = ch][2],
                          Tail(text))
                  ELSE ScanAll(d, d.trap_node, Tail(text))

\* what that matcher answers: whether the scan ended elsewhere than on the
\* trap node, on a final node
MatchAll(d, text) ==
    LET end == ScanAll(d, d.root, text)
    IN  end # d.trap_node /\ d.nodes[end].is_final

\* C18: for every text accepts, whose loop ends at the first symbol without
\* a transition, returns what the matcher that scans all the symbols
\* answers.
C18_BreakEqualsScanAll ==
    \A t \in Texts : accepts(Self, t) = Value(MatchAll(Self, t))

\* C18 happens: accepts has returned False, and there is a text whose first
\* symbol has no transition from the root, followed by a punctuation symbol
\* and by a symbol that is an inserted word.
C18_Witness ==
    /\ ret.op = "accepts" /\ ret.out = Value(FALSE)
    /\ \E t \in Texts :
          /\ Len(t) = 3
          /\ NoTransitionAt(t, 1)
          /\ t[2] \in punctuation
          /\ <<t[3]>> \in inserted /\ t[3] \notin punctuation
          /\ ScanAll(Self, root, t) = trap_node

\* C19: accepts and to_dot write nothing: a call of either leaves every
\* node of the heap, the children dict of every node with its order, every
\* is_final, the root and the trap node as they were.
C19_ReadOnly ==
    [][ ret'.op \in {"accepts", "to_dot"} =>
            /\ DOMAIN nodes' = DOMAIN nodes
            /\ \A n \in DOMAIN nodes :
                  /\ nodes'[n].children = nodes[n].children
                  /\ nodes'[n].is_final = nodes[n].is_final
            /\ root' = root
            /\ trap_node' = trap_node ]_vars

\* C19 happens: accepts has run and ended on the trap node, on a tree of
\* four nodes with a node that has two children.
C19_Witness ==
    /\ ret.op = "accepts" /\ ret.out = Value(FALSE)
    /\ Cardinality(Reach(Self)) >= 4
    /\ \E n \in Reach(Self) : Len(nodes[n].children) >= 2
    /\ \E t \in Texts : \E i \in 1 .. Len(t) : NoTransitionAt(t, i)

====
